---- MODULE Spec2Model ----
(***************************************************************************)
(* Moku backend supervisor (src-tauri/src/lib.rs): the sidecar process     *)
(* supervisor (spawn_server, kill_server, kill_tachidesk, the window       *)
(* destroy handler), the configuration seeder (seed_server_conf,           *)
(* patch_conf_key) and the binary resolver (resolve_server_binary).        *)
(*                                                                         *)
(* A Rust String is modelled as a sequence of chunks.  Every chunk is a    *)
(* piece of text (a key name, " ", "=", a value, "\n", "\r", ...); the     *)
(* chunk alphabet is prefix-free, so starts_with, ends_with, lines and     *)
(* join on chunk sequences agree with the same operations on characters.   *)
(***************************************************************************)
EXTENDS Integers, Sequences, FiniteSets, TLC

VARIABLES
    handle,     \* ServerState.0 : Option<CommandChild>, <<>> or <<c>>
    lock,       \* owner of the Mutex in ServerState: <<>> or <<thread>>
    launched,   \* number of sidecar processes launched so far (ids 1..launched)
    running,    \* set of launched sidecar processes that are still alive
    termCount,  \* per process: how often CommandChild::kill was issued on it
    pc,         \* per thread: position inside the running command
    op,         \* per thread: "spawn", "kill" (kill_server), "destroy" (window event)
    ret,        \* per thread: result returned by the current call
    child,      \* per thread: CommandChild held in a local variable
    call,       \* per thread: what the current call has done so far
    started,    \* number of calls begun
    killsSince, \* kill calls that returned since the latest spawn_server call began
    killBegun,  \* some kill call has begun
    file,       \* <data_dir>/server.conf: <<>> when absent, <<text>> when present
    seedIo,     \* what the latest seed_server_conf did: "none" (not run yet),
                \* "created", "patched", or "error" when a file system call failed
    patch,      \* patch_conf_key on its own: its arguments, input and result
    resolved,   \* resolve_server_binary on its own: <<>> or its arguments and result
    storage     \* get_storage_info on its own: <<>> or its inputs and result

vars == <<handle, lock, launched, running, termCount, pc, op, ret, child, call,
          started, killsSince, killBegun, file, seedIo, patch, resolved, storage>>

-----------------------------------------------------------------------------
(* Bounds *)

NThreads == 2
MaxCalls == 3
MaxLines == 3

Threads == 1..NThreads
Children == 1..MaxCalls

-----------------------------------------------------------------------------
(* Strings *)

NL == "\n"
CR == "\r"
SP == " "
EQ == "="

\* char::is_whitespace for the chunks that occur inside a line
IsWhitespace(c) == c \in {SP, CR, "\t"}

starts_with(s, prefix) ==
    /\ Len(s) >= Len(prefix)
    /\ SubSeq(s, 1, Len(prefix)) = prefix

ends_with(s, c) == Len(s) > 0 /\ s[Len(s)] = c

RECURSIVE trim_start(_)
trim_start(s) ==
    IF s # <<>> /\ IsWhitespace(Head(s)) THEN trim_start(Tail(s)) ELSE s

\* index of the first "\n" of s after position p, Len(s) when there is none
NextEnd(s, p) ==
    CHOOSE e \in (p + 1)..Len(s) :
        /\ s[e] = NL \/ e = Len(s)
        /\ \A i \in (p + 1)..(e - 1) : s[i] # NL

\* str::split_inclusive('\n') on s after position p: the pieces that each end
\* with "\n", and the rest after the last "\n" when it is not empty
RECURSIVE SplitFrom(_, _)
SplitFrom(s, p) ==
    IF p >= Len(s) THEN <<>>
    ELSE LET e == NextEnd(s, p)
         IN  <<SubSeq(s, p + 1, e)>> \o SplitFrom(s, e)

split_inclusive(s) == SplitFrom(s, 0)

\* the map of str::lines: strip one "\n", and then one "\r", from the end
LinesMap(line) ==
    IF ~ends_with(line, NL) THEN line
    ELSE LET l1 == SubSeq(line, 1, Len(line) - 1)
         IN  IF ends_with(l1, CR) THEN SubSeq(l1, 1, Len(l1) - 1) ELSE l1

lines(text) ==
    LET parts == split_inclusive(text)
    IN  [i \in 1..Len(parts) |-> LinesMap(parts[i])]

\* [String]::join("\n")
RECURSIVE join(_)
join(ls) ==
    IF ls = <<>> THEN <<>>
    ELSE IF Len(ls) = 1 THEN ls[1]
    ELSE ls[1] \o <<NL>> \o join(Tail(ls))

\* format!("{key} = {value}")
Replacement(key, value) == key \o <<SP, EQ, SP>> \o value

\* Iterator::position: index of the first line that starts with the key, 0 if none
Position(ls, key) ==
    LET hits == {i \in 1..Len(ls) : starts_with(trim_start(ls[i]), key)}
    IN  IF hits = {} THEN 0 ELSE CHOOSE i \in hits : \A j \in hits : i <= j

\* the two arms of patch_conf_key, given the lines of the text and the position
PatchAt(text, ls, pos, key, value) ==
    IF pos # 0
    THEN join([i \in 1..Len(ls) |->
                  IF i = pos THEN Replacement(key, value) ELSE ls[i]])
    ELSE (IF ends_with(text, NL) THEN text ELSE Append(text, NL))
             \o Replacement(key, value) \o <<NL>>

PatchLines(text, ls, key, value) ==
    PatchAt(text, ls, Position(ls, key), key, value)

patch_conf_key(text, key, value) == PatchLines(text, lines(text), key, value)

-----------------------------------------------------------------------------
(* Configuration seeder *)

KeyWebUI  == <<"server.webUIEnabled">>
KeyOpen   == <<"server.initialOpenInBrowserEnabled">>
KeyTray   == <<"server.systemTrayEnabled">>
SafetyKeys == {KeyWebUI, KeyOpen, KeyTray}
False == <<"false">>
True  == <<"true">>

ConfLine(key, value) == <<key, SP, EQ, SP, value, NL>>

DEFAULT_SERVER_CONF ==
       ConfLine("server.ip", "\"127.0.0.1\"")
    \o ConfLine("server.port", "4567")
    \o ConfLine("server.webUIEnabled", "false")
    \o ConfLine("server.initialOpenInBrowserEnabled", "false")
    \o ConfLine("server.systemTrayEnabled", "false")
    \o ConfLine("server.webUIInterface", "\"browser\"")
    \o ConfLine("server.webUIFlavor", "\"WebUI\"")
    \o ConfLine("server.webUIChannel", "\"stable\"")
    \o ConfLine("server.electronPath", "\"\"")
    \o ConfLine("server.debugLogsEnabled", "false")
    \o ConfLine("server.downloadAsCbz", "true")
    \o ConfLine("server.autoDownloadNewChapters", "false")
    \o ConfLine("server.globalUpdateInterval", "12")
    \o ConfLine("server.maxSourcesInParallel", "6")
    \o ConfLine("server.extensionRepos", "[]")

\* Outcomes of the file system calls of one seed_server_conf run: create_dir_all,
\* read_to_string and write each succeed or fail.  A failed write leaves the
\* file as it was.
IoOutcomes == [mkdir : BOOLEAN, read : BOOLEAN, write : BOOLEAN]

FsWrite(f, contents, ok) == IF ok THEN <<contents>> ELSE f

seed_server_conf(f, io) ==
    IF f = <<>>
    THEN IF ~io.mkdir THEN f
         ELSE FsWrite(f, DEFAULT_SERVER_CONF, io.write)
    ELSE IF ~io.read THEN f
         ELSE FsWrite(f,
                  patch_conf_key(
                      patch_conf_key(
                          patch_conf_key(f[1], KeyWebUI, False),
                          KeyOpen, False),
                      KeyTray, False),
                  io.write)

\* what a run did: wrote the default file, patched the existing file, or met
\* a failing file system call
SeedIoResult(f, io) ==
    IF f = <<>>
    THEN IF io.mkdir /\ io.write THEN "created" ELSE "error"
    ELSE IF io.read /\ io.write THEN "patched" ELSE "error"

-----------------------------------------------------------------------------
(* Binary resolver *)

Candidates ==
    << "suwayomi-server-aarch64-apple-darwin",
       "suwayomi-server-x86_64-apple-darwin",
       "suwayomi-server" >>

IsBlank(s) == \A i \in 1..Len(s) : IsWhitespace(s[i])

\* a resolver that lets a later candidate win over an earlier one
resolve_last_candidate(binary, resDir) ==
    IF ~IsBlank(binary) THEN [ok |-> TRUE, val |-> binary]
    ELSE IF resDir = <<>>
    THEN [ok |-> FALSE, val |-> <<"Could not locate resource dir">>]
    ELSE LET hits == {i \in 1..Len(Candidates) : Candidates[i] \in resDir[1]}
         IN  IF hits # {}
             THEN [ok |-> TRUE,
                   val |-> <<"<resource_dir>/",
                             Candidates[CHOOSE i \in hits : \A j \in hits : i >= j]>>]
             ELSE [ok |-> FALSE, val |-> <<"Suwayomi server binary not found">>]

\* resDir: <<>> when resource_dir() fails, else <<names>> with the set of
\* file names that exist in the resource directory
resolve_server_binary(binary, resDir) ==
    IF ~IsBlank(binary) THEN [ok |-> TRUE, val |-> binary]
    ELSE IF resDir = <<>>
    THEN [ok |-> FALSE, val |-> <<"Could not locate resource dir">>]
    ELSE LET hits == {i \in 1..Len(Candidates) : Candidates[i] \in resDir[1]}
         IN  IF hits # {}
             THEN [ok |-> TRUE,
                   val |-> <<"<resource_dir>/",
                             Candidates[CHOOSE i \in hits : \A j \in hits : i <= j]>>]
             ELSE [ok |-> FALSE, val |-> <<"Suwayomi server binary not found">>]

\* the override passed by the frontend, and the states of the resource directory
Binaries == { <<>>, <<SP>>, <<"/usr/bin/tachidesk-server">> }
ResourceDirs ==
    { <<>>, <<{}>>, <<{Candidates[3]}>>, <<{Candidates[2], Candidates[3]}>> }

-----------------------------------------------------------------------------
(* Process supervisor *)

NewCall ==
    [ sawSome  |-> FALSE,     \* spawn: the emptiness check found a tracked child
      seeded   |-> FALSE,     \* spawn: seed_server_conf was run
      resolved |-> FALSE,     \* spawn: resolve_server_binary was run
      launches |-> 0,         \* spawn: launch attempts
      stored   |-> FALSE,     \* spawn: the handle was written
      failed   |-> "none",    \* spawn: "resolve" or "launch" when that step failed
      step1    |-> "pending", \* kill: "empty", "killed" or "failed" after take-and-kill
      pkills   |-> 0,         \* kill: pattern-based terminations issued
      pkillRes |-> "none" ]   \* kill: "ok" or "failed"

KillOps == {"kill", "destroy"}
Idle(t) == pc[t] \in {"idle", "done"}

\* ServerState(Mutex::new(None)), no command running, no sidecar process
InitSupervisor ==
    /\ handle = <<>>
    /\ lock = <<>>
    /\ launched = 0
    /\ running = {}
    /\ termCount = [c \in Children |-> 0]
    /\ pc = [t \in Threads |-> "idle"]
    /\ op = [t \in Threads |-> "none"]
    /\ ret = [t \in Threads |-> "none"]
    /\ child = [t \in Threads |-> <<>>]
    /\ call = [t \in Threads |-> NewCall]
    /\ started = 0
    /\ killsSince = 0
    /\ killBegun = FALSE

\* no function has been applied on its own
InitPure ==
    /\ patch = <<>>
    /\ resolved = <<>>
    /\ storage = <<>>

\* the application starts on a fresh data directory
Init ==
    /\ InitSupervisor
    /\ InitPure
    /\ file = <<>>
    /\ seedIo = "none"

confVars == <<file, seedIo>>
pureVars == <<patch, resolved, storage>>
procVars == <<launched, running, termCount>>

\* The frontend invokes spawn_server or kill_server, or the window is destroyed.
\* Once the window is destroyed no further command arrives.
Begin(t, o) ==
    /\ Idle(t)
    /\ started < MaxCalls
    /\ \A u \in Threads : op[u] # "destroy"
    /\ started' = started + 1
    /\ op' = [op EXCEPT ![t] = o]
    /\ pc' = [pc EXCEPT ![t] = IF o = "spawn" THEN "sp_check" ELSE "k_take"]
    /\ ret' = [ret EXCEPT ![t] = "none"]
    /\ child' = [child EXCEPT ![t] = <<>>]
    /\ call' = [call EXCEPT ![t] = NewCall]
    /\ killsSince' = IF o = "spawn" THEN 0 ELSE killsSince
    /\ killBegun' = (killBegun \/ o \in KillOps)
    /\ UNCHANGED pureVars
    /\ UNCHANGED <<handle, lock, procVars, confVars>>

\* a spawn_server without the idempotency guard: it goes on whatever it finds
SpawnCheck_NoGuard(t) ==
    /\ pc[t] = "sp_check"
    /\ lock = <<>>
    /\ lock' = <<>>
    /\ call' = [call EXCEPT ![t].sawSome = (handle # <<>>)]
    /\ pc' = [pc EXCEPT ![t] = "sp_seed"]
    /\ UNCHANGED pureVars
    /\ UNCHANGED <<handle, procVars, op, ret, child, started, killsSince, killBegun,
                   confVars>>

\* a spawn_server whose first guard is not scoped to the check: it is still
\* held when the call goes on to seed, resolve, launch and lock again
SpawnCheck_KeepGuard(t) ==
    /\ pc[t] = "sp_check"
    /\ lock = <<>>
    /\ call' = [call EXCEPT ![t].sawSome = (handle # <<>>)]
    /\ IF handle # <<>>
       THEN /\ ret' = [ret EXCEPT ![t] = "Ok"]
            /\ pc' = [pc EXCEPT ![t] = "done"]
            /\ lock' = <<>>
       ELSE /\ pc' = [pc EXCEPT ![t] = "sp_seed"]
            /\ lock' = <<t>>
            /\ UNCHANGED ret
    /\ UNCHANGED pureVars
    /\ UNCHANGED <<handle, procVars, op, child, started, killsSince, killBegun, confVars>>

\* { let guard = state.0.lock().unwrap(); if guard.is_some() { return Ok(()) } }
\* the lock is taken, the handle is read and the guard is dropped with the block
SpawnCheck(t) ==
    /\ pc[t] = "sp_check"
    /\ lock = <<>>
    /\ lock' = <<>>
    /\ call' = [call EXCEPT ![t].sawSome = (handle # <<>>)]
    /\ IF handle # <<>>
       THEN /\ ret' = [ret EXCEPT ![t] = "Ok"]
            /\ pc' = [pc EXCEPT ![t] = "done"]
       ELSE /\ pc' = [pc EXCEPT ![t] = "sp_seed"]
            /\ UNCHANGED ret
    /\ UNCHANGED pureVars
    /\ UNCHANGED <<handle, procVars, op, child, started, killsSince, killBegun, confVars>>

\* a spawn_server that returns the I/O error of the seeder (seed_server_conf(..)?)
SpawnSeed_Abort(t) ==
    /\ pc[t] = "sp_seed"
    /\ \E io \in IoOutcomes :
          /\ file' = seed_server_conf(file, io)
          /\ seedIo' = SeedIoResult(file, io)
          /\ IF SeedIoResult(file, io) = "error"
             THEN /\ pc' = [pc EXCEPT ![t] = "done"]
                  /\ ret' = [ret EXCEPT ![t] = "Err"]
                  /\ call' = [call EXCEPT ![t].seeded = TRUE, ![t].failed = "resolve"]
             ELSE /\ pc' = [pc EXCEPT ![t] = "sp_resolve"]
                  /\ call' = [call EXCEPT ![t].seeded = TRUE]
                  /\ UNCHANGED ret
    /\ UNCHANGED pureVars
    /\ UNCHANGED <<handle, lock, procVars, op, child, started, killsSince, killBegun>>

\* let data_dir = suwayomi_data_dir(); seed_server_conf(&data_dir);
\* I/O errors of the seeder are printed, not returned
SpawnSeed(t) ==
    /\ pc[t] = "sp_seed"
    /\ \E io \in IoOutcomes :
          /\ file' = seed_server_conf(file, io)
          /\ seedIo' = SeedIoResult(file, io)
    /\ call' = [call EXCEPT ![t].seeded = TRUE]
    /\ pc' = [pc EXCEPT ![t] = "sp_resolve"]
    /\ UNCHANGED pureVars
    /\ UNCHANGED <<handle, lock, procVars, op, ret, child, started, killsSince, killBegun>>

\* let bin = resolve_server_binary(&binary, &app)?;
SpawnResolve(t) ==
    /\ pc[t] = "sp_resolve"
    /\ \E binary \in Binaries, resDir \in ResourceDirs :
          IF resolve_server_binary(binary, resDir).ok
          THEN /\ pc' = [pc EXCEPT ![t] = "sp_launch"]
               /\ call' = [call EXCEPT ![t].resolved = TRUE]
               /\ UNCHANGED ret
          ELSE /\ pc' = [pc EXCEPT ![t] = "done"]
               /\ call' = [call EXCEPT ![t].resolved = TRUE, ![t].failed = "resolve"]
               /\ ret' = [ret EXCEPT ![t] = "Err"]
    /\ UNCHANGED pureVars
    /\ UNCHANGED <<handle, lock, procVars, op, child, started, killsSince, killBegun,
                   confVars>>

\* a spawn_server that tries the launch a second time when the first fails
SpawnLaunch_Retry(t) ==
    /\ pc[t] = "sp_launch"
    /\ \/ /\ launched' = launched + 1
          /\ running' = running \cup {launched + 1}
          /\ child' = [child EXCEPT ![t] = <<launched + 1>>]
          /\ call' = [call EXCEPT ![t].launches = @ + 1]
          /\ pc' = [pc EXCEPT ![t] = "sp_store"]
          /\ UNCHANGED ret
       \/ /\ call' = [call EXCEPT ![t].launches = @ + 2, ![t].failed = "launch"]
          /\ ret' = [ret EXCEPT ![t] = "Err"]
          /\ pc' = [pc EXCEPT ![t] = "done"]
          /\ UNCHANGED <<launched, running, child>>
    /\ UNCHANGED pureVars
    /\ UNCHANGED <<handle, lock, termCount, op, started, killsSince, killBegun, confVars>>

\* shell.command(&bin)...spawn(): the OS starts a new process, or reports an error
SpawnLaunch(t) ==
    /\ pc[t] = "sp_launch"
    /\ \/ /\ launched' = launched + 1
          /\ running' = running \cup {launched + 1}
          /\ child' = [child EXCEPT ![t] = <<launched + 1>>]
          /\ call' = [call EXCEPT ![t].launches = @ + 1]
          /\ pc' = [pc EXCEPT ![t] = "sp_store"]
          /\ UNCHANGED ret
       \/ /\ call' = [call EXCEPT ![t].launches = @ + 1, ![t].failed = "launch"]
          /\ ret' = [ret EXCEPT ![t] = "Err"]
          /\ pc' = [pc EXCEPT ![t] = "done"]
          /\ UNCHANGED <<launched, running, child>>
    /\ UNCHANGED pureVars
    /\ UNCHANGED <<handle, lock, termCount, op, started, killsSince, killBegun, confVars>>

\* let mut guard = state.0.lock().unwrap(); *guard = Some(child); Ok(())
\* (a CommandChild that is overwritten is dropped, which does not end its process)
SpawnStore(t) ==
    /\ pc[t] = "sp_store"
    /\ lock = <<>>
    /\ handle' = child[t]
    /\ child' = [child EXCEPT ![t] = <<>>]
    /\ lock' = <<>>
    /\ call' = [call EXCEPT ![t].stored = TRUE]
    /\ ret' = [ret EXCEPT ![t] = "Ok"]
    /\ pc' = [pc EXCEPT ![t] = "done"]
    /\ UNCHANGED pureVars
    /\ UNCHANGED <<procVars, op, started, killsSince, killBegun, confVars>>

\* a kill that reads the handle (guard.as_ref()) instead of taking it
KillTake_Peek(t) ==
    /\ pc[t] = "k_take"
    /\ lock = <<>>
    /\ lock' = <<t>>
    /\ handle' = handle
    /\ child' = [child EXCEPT ![t] = handle]
    /\ IF handle # <<>>
       THEN /\ pc' = [pc EXCEPT ![t] = "k_kill"]
            /\ UNCHANGED call
       ELSE /\ pc' = [pc EXCEPT ![t] = "k_pkill"]
            /\ call' = [call EXCEPT ![t].step1 = "empty"]
    /\ UNCHANGED pureVars
    /\ UNCHANGED <<procVars, op, ret, started, killsSince, killBegun, confVars>>

\* a kill that returns at once when no child is tracked
KillTake_EarlyReturn(t) ==
    /\ pc[t] = "k_take"
    /\ lock = <<>>
    /\ handle' = <<>>
    /\ IF handle # <<>>
       THEN /\ lock' = <<t>>
            /\ child' = [child EXCEPT ![t] = handle]
            /\ pc' = [pc EXCEPT ![t] = "k_kill"]
            /\ UNCHANGED <<call, ret, killsSince>>
       ELSE /\ lock' = <<>>
            /\ call' = [call EXCEPT ![t].step1 = "empty"]
            /\ ret' = [ret EXCEPT ![t] = IF op[t] = "kill" THEN "Ok" ELSE "Unit"]
            /\ pc' = [pc EXCEPT ![t] = "done"]
            /\ killsSince' = killsSince + 1
            /\ UNCHANGED child
    /\ UNCHANGED pureVars
    /\ UNCHANGED <<procVars, op, started, killBegun, confVars>>

\* let mut guard = state.0.lock().unwrap(); if let Some(child) = guard.take()
\* the guard lives until the end of kill_tachidesk
KillTake(t) ==
    /\ pc[t] = "k_take"
    /\ lock = <<>>
    /\ lock' = <<t>>
    /\ handle' = <<>>
    /\ child' = [child EXCEPT ![t] = handle]
    /\ IF handle # <<>>
       THEN /\ pc' = [pc EXCEPT ![t] = "k_kill"]
            /\ UNCHANGED call
       ELSE /\ pc' = [pc EXCEPT ![t] = "k_pkill"]
            /\ call' = [call EXCEPT ![t].step1 = "empty"]
    /\ UNCHANGED pureVars
    /\ UNCHANGED <<procVars, op, ret, started, killsSince, killBegun, confVars>>

\* a kill that propagates the error of child.kill() (child.kill()?) and so
\* returns before the pattern-based termination
KillChild_Propagate(t) ==
    /\ pc[t] = "k_kill"
    /\ LET c == child[t][1] IN
          /\ termCount' = [termCount EXCEPT ![c] = @ + 1]
          /\ running' = running \ {c}
          /\ \E r \in (IF c \in running THEN {"killed"} ELSE {"killed", "failed"}) :
                /\ call' = [call EXCEPT ![t].step1 = r]
                /\ IF r = "failed"
                   THEN /\ pc' = [pc EXCEPT ![t] = "done"]
                        /\ ret' = [ret EXCEPT ![t] = "Err"]
                        /\ lock' = <<>>
                        /\ killsSince' = killsSince + 1
                   ELSE /\ pc' = [pc EXCEPT ![t] = "k_pkill"]
                        /\ UNCHANGED <<ret, lock, killsSince>>
    /\ child' = [child EXCEPT ![t] = <<>>]
    /\ UNCHANGED pureVars
    /\ UNCHANGED <<handle, launched, op, started, killBegun, confVars>>

\* a kill that puts the child back into the handle when child.kill() fails
KillChild_Restore(t) ==
    /\ pc[t] = "k_kill"
    /\ LET c == child[t][1] IN
          /\ termCount' = [termCount EXCEPT ![c] = @ + 1]
          /\ running' = running \ {c}
          /\ \E r \in (IF c \in running THEN {"killed"} ELSE {"killed", "failed"}) :
                /\ call' = [call EXCEPT ![t].step1 = r]
                /\ handle' = IF r = "failed" THEN <<c>> ELSE handle
    /\ child' = [child EXCEPT ![t] = <<>>]
    /\ pc' = [pc EXCEPT ![t] = "k_pkill"]
    /\ UNCHANGED pureVars
    /\ UNCHANGED <<lock, launched, op, ret, started, killsSince, killBegun, confVars>>

\* let _ = child.kill();  a live process is terminated; on a process that has
\* already exited the call has no effect and may report an error
KillChild(t) ==
    /\ pc[t] = "k_kill"
    /\ LET c == child[t][1] IN
          /\ termCount' = [termCount EXCEPT ![c] = @ + 1]
          /\ running' = running \ {c}
          /\ \E r \in (IF c \in running THEN {"killed"} ELSE {"killed", "failed"}) :
                call' = [call EXCEPT ![t].step1 = r]
    /\ child' = [child EXCEPT ![t] = <<>>]
    /\ pc' = [pc EXCEPT ![t] = "k_pkill"]
    /\ UNCHANGED pureVars
    /\ UNCHANGED <<handle, lock, launched, op, ret, started, killsSince, killBegun,
                   confVars>>

\* Command::new("pkill").arg("-f").arg("tachidesk").status() (taskkill on Windows):
\* when it runs it ends every process whose command line matches (each sidecar
\* is started with -Dsuwayomi.tachidesk.config.server.rootDir=...); when it
\* cannot be run, or matches nothing, no process ends.  The result is dropped.
KillPattern(t) ==
    /\ pc[t] = "k_pkill"
    /\ \/ /\ running' = {}
          /\ call' = [call EXCEPT ![t].pkills = @ + 1, ![t].pkillRes = "ok"]
       \/ /\ running' = running
          /\ call' = [call EXCEPT ![t].pkills = @ + 1, ![t].pkillRes = "failed"]
    /\ pc' = [pc EXCEPT ![t] = "k_ret"]
    /\ UNCHANGED pureVars
    /\ UNCHANGED <<handle, lock, launched, termCount, op, ret, child, started,
                   killsSince, killBegun, confVars>>

\* end of kill_tachidesk: the guard is dropped; kill_server returns Ok(()),
\* the window event handler returns ()
KillReturn(t) ==
    /\ pc[t] = "k_ret"
    /\ lock' = <<>>
    /\ ret' = [ret EXCEPT ![t] = IF op[t] = "kill" THEN "Ok" ELSE "Unit"]
    /\ pc' = [pc EXCEPT ![t] = "done"]
    /\ killsSince' = killsSince + 1
    /\ UNCHANGED pureVars
    /\ UNCHANGED <<handle, procVars, op, child, call, started, killBegun, confVars>>

\* the sidecar process ends on its own
ChildExits(c) ==
    /\ c \in running
    /\ running' = running \ {c}
    /\ UNCHANGED pureVars
    /\ UNCHANGED <<handle, lock, launched, termCount, pc, op, ret, child, call,
                   started, killsSince, killBegun, confVars>>

Next ==
    \/ \E t \in Threads : \E o \in {"spawn", "kill", "destroy"} : Begin(t, o)
    \/ \E t \in Threads : SpawnCheck(t)
    \/ \E t \in Threads : SpawnSeed(t)
    \/ \E t \in Threads : SpawnResolve(t)
    \/ \E t \in Threads : SpawnLaunch(t)
    \/ \E t \in Threads : SpawnStore(t)
    \/ \E t \in Threads : KillTake(t)
    \/ \E t \in Threads : KillChild(t)
    \/ \E t \in Threads : KillPattern(t)
    \/ \E t \in Threads : KillReturn(t)
    \/ \E c \in Children : ChildExits(c)

Spec == Init /\ [][Next]_vars

\* the steps of the call that thread t is running
Step(t) ==
    \/ SpawnCheck(t)
    \/ SpawnSeed(t)
    \/ SpawnResolve(t)
    \/ SpawnLaunch(t)
    \/ SpawnStore(t)
    \/ KillTake(t)
    \/ KillChild(t)
    \/ KillPattern(t)
    \/ KillReturn(t)

\* every OS call returns: while some call can take a step, some call does
SpecFair == Spec /\ WF_vars(\E t \in Threads : Step(t))

-----------------------------------------------------------------------------
(* The seeder on its own: seed_server_conf applied to any configuration file *)

Line(key, rest) == key \o rest

\* lines a configuration file may hold
LineSet ==
    { Line(KeyWebUI, <<SP, EQ, SP, "true">>),
      Line(KeyWebUI, <<SP, EQ, SP, "false">>),
      <<SP, SP>> \o Line(KeyOpen, <<SP, EQ, SP, "true">>),
      Line(KeyTray, <<EQ, "true">>),
      Line(KeyWebUI, <<"Legacy", SP, EQ, SP, "true">>),
      <<"server.port", SP, EQ, SP, "4567">>,
      <<"server.port", SP, EQ, SP, "4567", CR>>,
      <<>> }

\* the texts of at most MaxLines lines, with or without a final line terminator
Texts ==
    UNION { { join(ls) \o fin : ls \in [1..n -> LineSet], fin \in {<<>>, <<NL>>} } :
            n \in 0..MaxLines }

InitSeed ==
    /\ InitSupervisor
    /\ InitPure
    /\ file \in { <<>> } \cup { <<t>> : t \in Texts }
    /\ seedIo = "none"

SeedConf ==
    /\ \E io \in IoOutcomes :
          /\ file' = seed_server_conf(file, io)
          /\ seedIo' = SeedIoResult(file, io)
    /\ UNCHANGED pureVars
    /\ UNCHANGED <<handle, lock, procVars, pc, op, ret, child, call, started,
                   killsSince, killBegun>>

NextSeed == SeedConf

SpecSeed == InitSeed /\ [][NextSeed]_vars

-----------------------------------------------------------------------------
(* The patcher on its own: patch_conf_key applied again and again to a text *)

MaxPatches == 2

\* the key and the value to write
PatchArgs ==
    { <<KeyWebUI, False>>, <<KeyTray, False>>, << <<"server.port">>, <<"8080">> >> }

InitPatch ==
    /\ InitSupervisor
    /\ file = <<>>
    /\ seedIo = "none"
    /\ resolved = <<>>
    /\ storage = <<>>
    /\ \E t \in Texts, a \in PatchArgs :
          patch = [key |-> a[1], value |-> a[2], in |-> t, out |-> t, n |-> 0]

\* text = patch_conf_key(text, key, value)
PatchKey ==
    /\ patch.n < MaxPatches
    /\ patch' = [patch EXCEPT !.in = patch.out,
                              !.out = patch_conf_key(patch.out, patch.key, patch.value),
                              !.n = @ + 1]
    /\ UNCHANGED <<handle, lock, procVars, pc, op, ret, child, call, started,
                   killsSince, killBegun, confVars, resolved, storage>>

NextPatch == PatchKey

SpecPatch == InitPatch /\ [][NextPatch]_vars

-----------------------------------------------------------------------------
(* The resolver on its own: resolve_server_binary on any override and directory *)

\* overrides the frontend may pass: empty, blank, and paths
Overrides ==
    Binaries \cup { <<SP, SP>>, <<"\t">>, <<SP, "/opt/suwayomi/bin/server">>,
                    <<"suwayomi-server">> }

\* resource_dir() fails, or the directory holds any of these files
DirListings ==
    { <<>> } \cup
    { <<S>> : S \in SUBSET ({Candidates[i] : i \in 1..Len(Candidates)}
                             \cup {"suwayomi-server.jar"}) }

InitResolve ==
    /\ InitSupervisor
    /\ file = <<>>
    /\ seedIo = "none"
    /\ patch = <<>>
    /\ storage = <<>>
    /\ resolved = <<>>

ResolveBinary ==
    /\ \E b \in Overrides, d \in DirListings :
          resolved' = << [binary |-> b, resDir |-> d,
                          res |-> resolve_server_binary(b, d)] >>
    /\ UNCHANGED <<handle, lock, procVars, pc, op, ret, child, call, started,
                   killsSince, killBegun, confVars, patch, storage>>

NextResolve == ResolveBinary

SpecResolve == InitResolve /\ [][NextResolve]_vars

-----------------------------------------------------------------------------
(* The storage reporter: get_storage_info on any path, environment and disk list *)

\* A path is the sequence of its components: "/" for the root directory,
\* then the names; <<"/", "home", "user">> is /home/user, <<"data">> is the
\* relative path data.
MaxDisks == 2

Root == <<"/">>

\* PathBuf::from: a string of chunks becomes the path of the same components
PathBufFrom(s) == s

\* Path::starts_with: base is a prefix of p, component by component
path_starts_with(p, base) ==
    /\ Len(base) <= Len(p)
    /\ \A i \in 1..Len(base) : p[i] = base[i]

RECURSIVE NamesLen(_, _)
NamesLen(p, i) ==
    IF i > Len(p) THEN 0 ELSE Len(p[i]) + NamesLen(p, i + 1)

\* as_os_str().len(): the bytes of the path written with "/" separators
os_str_len(p) ==
    IF p = <<>> THEN 0
    ELSE IF p[1] = "/" THEN (IF Len(p) = 1 THEN 1 ELSE NamesLen(p, 2) + (Len(p) - 1))
    ELSE NamesLen(p, 1) + (Len(p) - 1)

resolve_downloads_path(downloads_path, xdg, dataDir) ==
    IF ~IsBlank(downloads_path) THEN PathBufFrom(downloads_path)
    ELSE LET base == IF xdg # <<>> THEN xdg[1]
                     ELSE IF dataDir # <<>> THEN dataDir[1] ELSE Root
         IN  base \o <<"Tachidesk", "downloads">>

\* a selection that keeps the first matching disk, whatever its mount point
disk_first_match(stat_path, disks) ==
    LET hits == {i \in 1..Len(disks) : path_starts_with(stat_path, disks[i])}
    IN  IF hits = {} THEN <<>>
        ELSE << CHOOSE i \in hits : \A j \in hits : i <= j >>

\* disks.iter().filter(starts_with).max_by_key(len): the last of the matching
\* disks with the longest mount point; <<>> when no disk matches
disk_for(stat_path, disks) ==
    LET hits == {i \in 1..Len(disks) : path_starts_with(stat_path, disks[i])}
        key(i) == os_str_len(disks[i])
        best == {i \in hits : \A j \in hits : key(i) >= key(j)}
    IN  IF hits = {} THEN <<>>
        ELSE << CHOOSE i \in best : \A j \in best : i >= j >>

\* in: downloads_path, the two answers of path.exists(), home_dir(),
\* XDG_DATA_HOME, data_dir() and the disk list
get_storage_info(in) ==
    LET path == resolve_downloads_path(in.downloads_path, in.xdg, in.dataDir)
        manga_bytes == IF in.existsWalk THEN "sum" ELSE "zero"
        stat_path == IF in.existsStat THEN path
                     ELSE IF in.home # <<>> THEN in.home[1] ELSE Root
        disk == disk_for(stat_path, in.disks)
    IN  IF disk = <<>>
        THEN [ok |-> FALSE, err |-> "Could not find disk for path",
              stat_path |-> stat_path, disk |-> <<>>, manga_bytes |-> "none",
              path |-> <<>>]
        ELSE [ok |-> TRUE, err |-> "", stat_path |-> stat_path, disk |-> disk,
              manga_bytes |-> manga_bytes, path |-> path]

Mounts ==
    { Root, <<"/", "home">>, <<"/", "home", "user">>, <<"/", "mnt">>, <<"/", "hom">> }

DiskLists == UNION { [1..n -> Mounts] : n \in 0..MaxDisks }

DownloadPaths ==
    { <<>>, <<SP>>, <<"/", "home", "user", "data">>, <<"/", "homer">>,
      <<"/", "mnt", "x">>, <<"data">> }

StorageInputs ==
    [ downloads_path : DownloadPaths,
      existsWalk : BOOLEAN,
      existsStat : BOOLEAN,
      home : { <<>>, << <<"/", "home", "user">> >> },
      xdg : { <<>>, << <<"/", "mnt">> >> },
      dataDir : { <<>>, << <<"/", "home", "user">> >> },
      disks : DiskLists ]

InitStorage ==
    /\ InitSupervisor
    /\ file = <<>>
    /\ seedIo = "none"
    /\ patch = <<>>
    /\ resolved = <<>>
    /\ \E in \in StorageInputs : storage = [in |-> in, out |-> <<>>]

GetStorageInfo ==
    /\ storage.out = <<>>
    /\ storage' = [storage EXCEPT !.out = << get_storage_info(storage.in) >>]
    /\ UNCHANGED <<handle, lock, procVars, pc, op, ret, child, call, started,
                   killsSince, killBegun, confVars, patch, resolved>>

NextStorage == GetStorageInfo

SpecStorage == InitStorage /\ [][NextStorage]_vars

-----------------------------------------------------------------------------
(* Properties of the process supervisor *)

SpawnDone(t) == op[t] = "spawn" /\ pc[t] = "done"
KillDoneBy(t) == op[t] \in KillOps /\ pc[t] = "done"
Tracked(c) == handle = <<c>> \/ \E t \in Threads : child[t] = <<c>>

\* C1: as long as no kill has begun, spawn_server calls, however interleaved,
\* launch at most one sidecar process, and every launched process is tracked
\* (by the handle, or by the call that is about to store it).
C1_AtMostOneLaunch ==
    ~killBegun => /\ launched <= 1
                  /\ \A c \in 1..launched : Tracked(c)

\* C2: once a kill has returned and no spawn_server call has begun since, no
\* sidecar process is running and the handle is empty (stated for the runs in
\* which no pattern-based termination of a returned kill call failed).
C2_NoSidecarAfterKill ==
    (/\ killsSince > 0
     /\ \A t \in Threads : KillDoneBy(t) => call[t].pkillRes = "ok")
        => running = {} /\ handle = <<>>

\* C3: a spawn_server call whose check finds a tracked child returns Ok without
\* seeding the configuration, resolving the binary, launching or writing the
\* handle; the step that returns leaves handle, processes and file as they were.
C3_NoOpState ==
    \A t \in Threads :
        (SpawnDone(t) /\ call[t].sawSome) =>
            /\ ret[t] = "Ok"
            /\ ~call[t].seeded /\ ~call[t].resolved
            /\ call[t].launches = 0 /\ ~call[t].stored

C3_NoOpStep ==
    \A t \in Threads :
        (pc[t] = "sp_check" /\ pc'[t] # "sp_check" /\ handle # <<>>) =>
            /\ pc'[t] = "done"
            /\ handle' = handle /\ Len(handle') = 1
            /\ UNCHANGED <<launched, running, termCount, file, seedIo>>

C3_SecondSpawnIsNoOp == []C3_NoOpState /\ [][C3_NoOpStep]_vars

C3_Witness ==
    \E t \in Threads :
        /\ SpawnDone(t) /\ call[t].sawSome /\ ret[t] = "Ok"
        /\ launched = 1 /\ handle = <<1>> /\ ~killBegun

\* C4: whenever a kill call returns the handle is empty, and no kill call
\* ever returns an error.
C4_KillReturnStep ==
    \A t \in Threads :
        (pc[t] = "k_ret" /\ pc'[t] = "done") =>
            /\ handle' = <<>>
            /\ ret'[t] \in {"Ok", "Unit"}

C4_KillNeverFails ==
    \A t \in Threads : op[t] \in KillOps => ret[t] # "Err"

C4_KillSequence == []C4_KillNeverFails /\ [][C4_KillReturnStep]_vars

C4_Witness ==
    /\ killsSince >= 2 /\ launched >= 1 /\ handle = <<>>
    /\ \A t \in Threads : Idle(t)

\* C5: a kill call whose terminate call on the tracked child failed, or whose
\* pattern-based termination failed, still returns success, has left the handle
\* empty, and has issued the pattern-based termination.
C5_KillErrorsDiscarded ==
    \A t \in Threads :
        /\ (op[t] \in KillOps /\ call[t].step1 = "failed" /\ pc[t] # "done") =>
               /\ handle = <<>>
               /\ pc[t] \in {"k_pkill", "k_ret"}
        /\ (KillDoneBy(t) /\ (call[t].step1 = "failed" \/ call[t].pkillRes = "failed")) =>
               /\ ret[t] \in {"Ok", "Unit"}
               /\ call[t].pkills = 1

C5_Witness ==
    \E t \in Threads :
        /\ op[t] = "kill" /\ pc[t] = "done" /\ ret[t] = "Ok"
        /\ call[t].step1 = "failed" /\ call[t].pkillRes = "failed"
        /\ handle = <<>>

\* C6: a spawn_server call that fails at binary resolution or at the launch
\* returns Err, has not written the handle and has tried the launch at most
\* once; the failing step leaves the handle as it was.
C6_FailedState ==
    \A t \in Threads :
        /\ (op[t] = "spawn" /\ call[t].failed # "none") =>
               /\ pc[t] = "done" /\ ret[t] = "Err"
               /\ ~call[t].stored
               /\ call[t].launches = (IF call[t].failed = "launch" THEN 1 ELSE 0)
        /\ (op[t] = "spawn" /\ ret[t] = "Err") => call[t].failed # "none"

C6_FailedStep ==
    \A t \in Threads :
        (ret[t] # "Err" /\ ret'[t] = "Err") =>
            handle' = handle /\ launched' = launched /\ running' = running

C6_FailedSpawn == []C6_FailedState /\ [][C6_FailedStep]_vars

C6_Witness ==
    \E t, u \in Threads :
        /\ SpawnDone(t) /\ ret[t] = "Err" /\ call[t].failed = "launch"
        /\ SpawnDone(u) /\ ret[u] = "Err" /\ call[u].failed = "resolve"

\* C7: the terminate call is issued at most once on each child, and the handle
\* never holds a child on which the terminate call has been issued.
C7_TakeBeforeTerminate ==
    /\ \A c \in Children : termCount[c] <= 1
    /\ \A c \in Children : handle = <<c>> => termCount[c] = 0

C7_Witness ==
    /\ \E c \in Children : termCount[c] = 1
    /\ \E t \in Threads : op[t] = "spawn" /\ pc[t] = "sp_check"
    /\ \E t \in Threads : op[t] \in KillOps /\ pc[t] = "k_pkill"

\* C8: every kill call that has returned issued the pattern-based termination
\* exactly once, and it is issued only after step 1 (take and terminate) is over.
C8_PatternKillOnce ==
    \A t \in Threads :
        op[t] \in KillOps =>
            /\ call[t].pkills <= 1
            /\ (pc[t] = "done" => call[t].pkills = 1)
            /\ (call[t].pkills = 1 => call[t].step1 # "pending")
            /\ (pc[t] \in {"k_take", "k_kill", "k_pkill"} => call[t].pkills = 0)

C8_Witness ==
    \E t, u \in Threads :
        /\ KillDoneBy(t) /\ call[t].step1 = "empty" /\ call[t].pkills = 1
        /\ KillDoneBy(u) /\ call[u].step1 = "killed" /\ call[u].pkills = 1

\* C16: the handle lock is never held while a call is in config seeding, in
\* binary resolution, in the OS launch call or in the pattern-based
\* termination call (the terminate call on the child taken from the handle
\* is the one OS call allowed under the lock).
C16_LockOnlyForHandle ==
    \A t \in Threads :
        lock = <<t>> => pc[t] \notin {"sp_seed", "sp_resolve", "sp_launch", "k_pkill"}

\* C17: a spawn_server call that found the handle empty seeds, resolves,
\* launches and stores in that order; seeding always leads to resolution,
\* also when it ends in an I/O error; the handle is written only with a child
\* that the same call launched; a call that failed at resolution has run the
\* seeder and launched nothing.
C17_OrderState ==
    \A t \in Threads :
        (op[t] = "spawn" /\ ~call[t].sawSome) =>
            /\ call[t].seeded <=> pc[t] \in {"sp_resolve", "sp_launch", "sp_store", "done"}
            /\ call[t].resolved <=> pc[t] \in {"sp_launch", "sp_store", "done"}
            /\ call[t].launches > 0 <=> pc[t] \in {"sp_store", "done"} /\ call[t].failed # "resolve"
            /\ call[t].stored <=> pc[t] = "done" /\ call[t].failed = "none"
            /\ call[t].stored => call[t].launches = 1
            /\ call[t].failed = "resolve" =>
                  call[t].seeded /\ call[t].launches = 0 /\ ~call[t].stored

C17_OrderStep ==
    /\ \A t \in Threads :
          /\ (pc[t] = "sp_seed" /\ pc'[t] # "sp_seed") =>
                 /\ pc'[t] = "sp_resolve"
                 /\ ret'[t] = ret[t]
                 /\ seedIo' \in {"created", "patched", "error"}
          /\ (pc[t] = "sp_store" /\ pc'[t] # "sp_store") =>
                 /\ child[t] # <<>> /\ handle' = child[t]
                 /\ call[t].launches = 1 /\ call[t].failed = "none"
    /\ (handle' # handle /\ handle' # <<>>) =>
           \E u \in Threads : pc[u] = "sp_store" /\ pc'[u] = "done"

C17_SpawnOrder == []C17_OrderState /\ [][C17_OrderStep]_vars

C17_Witness ==
    \E t \in Threads :
        /\ started = 1 /\ SpawnDone(t) /\ ~call[t].sawSome
        /\ seedIo = "error"
        /\ call[t].launches = 1 /\ call[t].stored /\ handle # <<>>

\* C18: as long as no kill has begun, a non-empty handle refers to a process
\* that is still running, so a spawn_server call that returned as a no-op has
\* left a running sidecar.
C18_HandleIsRunning ==
    ~killBegun => \A c \in Children : handle = <<c>> => c \in running

\* C19: a call never waits for the handle lock while it holds the lock
\* itself, and every spawn_server or kill call that has begun returns: at any
\* moment there is a moment, now or later, at which no call is pending.
C19_NoReentry ==
    \A t \in Threads : lock = <<t>> => pc[t] \in {"k_kill", "k_pkill", "k_ret"}

C19_Returns ==
    []<>(\A t \in Threads : pc[t] \in {"idle", "done"})

C19_EveryCallReturns == []C19_NoReentry /\ C19_Returns

C19_Witness ==
    \E t, u \in Threads :
        /\ lock = <<t>> /\ op[t] = "destroy" /\ pc[t] = "k_pkill"
        /\ op[u] = "spawn" /\ pc[u] = "sp_store"

-----------------------------------------------------------------------------
(* Properties of the seeder *)

\* the line defines the key: the key, then "=", white space aside
DefinesKey(l, key) ==
    LET tl == trim_start(l)
    IN  /\ starts_with(tl, key)
        /\ LET r == trim_start(SubSeq(tl, Len(key) + 1, Len(tl)))
           IN  r # <<>> /\ Head(r) = EQ

\* the line sets the key to the value
SetsKeyTo(l, key, value) ==
    /\ DefinesKey(l, key)
    /\ LET tl == trim_start(l)
           r  == trim_start(SubSeq(tl, Len(key) + 1, Len(tl)))
       IN  SelectSeq(Tail(r), LAMBDA c : ~IsWhitespace(c)) = value

SafetyKeysForced(text) ==
    LET ls == lines(text)
    IN  \A key \in SafetyKeys :
           /\ \E i \in 1..Len(ls) : ls[i] = Replacement(key, False)
           /\ \A i \in 1..Len(ls) : DefinesKey(ls[i], key) => SetsKeyTo(ls[i], key, False)

\* C9: after seed_server_conf has patched an existing file, each safety key
\* has a line `key = false` and no line sets it to another value.
C9_SafetyKeysForced ==
    seedIo = "patched" => SafetyKeysForced(file[1])

RECURSIVE IsSubsequence(_, _)
IsSubsequence(a, b) ==
    IF a = <<>> THEN TRUE
    ELSE IF b = <<>> THEN FALSE
    ELSE IF Head(a) = Head(b) THEN IsSubsequence(Tail(a), Tail(b))
    ELSE IsSubsequence(a, Tail(b))

OtherLine(l) == \A key \in SafetyKeys : ~DefinesKey(l, key)

\* C10: when seed_server_conf patches an existing file, the lines that do not
\* define a safety key are all there afterwards, verbatim and in the same order.
C10_OtherLinesKept ==
    [][ (file # <<>> /\ seedIo' = "patched") =>
            IsSubsequence(SelectSeq(lines(file[1]), OtherLine), lines(file'[1])) ]_vars

-----------------------------------------------------------------------------
(* Properties of the patcher *)

KeyLines(ls, key) == {i \in 1..Len(ls) : starts_with(trim_start(ls[i]), key)}

\* C11: when some line of the text begins with the key, patch_conf_key rewrites
\* the first such line to `key = value`, keeps every other line verbatim and in
\* its place, and keeps the number of lines.
C11_RewritesFirstLineOnly ==
    LET a == lines(patch.in)
        b == lines(patch.out)
        hits == KeyLines(a, patch.key)
    IN  (patch.n >= 1 /\ hits # {}) =>
            /\ Len(b) = Len(a)
            /\ \A i \in 1..Len(a) :
                  b[i] = IF i \in hits /\ \A j \in hits : i <= j
                         THEN Replacement(patch.key, patch.value)
                         ELSE a[i]

\* C12: when no line of the text begins with the key, the lines of the result
\* are the lines of the text followed by the one line `key = value`.
C12_AppendsOneLine ==
    (patch.n >= 1 /\ KeyLines(lines(patch.in), patch.key) = {}) =>
        lines(patch.out) = Append(lines(patch.in), Replacement(patch.key, patch.value))

\* C13: patching a second time with the same key and value gives back the
\* text of the first patch, character for character.
C13_PatchIdempotent ==
    patch.n >= 2 => patch.out = patch.in

-----------------------------------------------------------------------------
(* Properties of the resolver *)

NotBlank(b) == \E i \in 1..Len(b) : b[i] \notin {SP, "\t", CR}

\* C14: an override that is not blank is returned as it is, whatever the
\* resource directory holds; with a blank override the result is the first
\* candidate of the list that exists in the resource directory, and an error
\* when none exists.
C14_ResolveOrder ==
    resolved # <<>> =>
        LET b == resolved[1].binary
            d == resolved[1].resDir
            r == resolved[1].res
            Exists(i) == d # <<>> /\ Candidates[i] \in d[1]
        IN  /\ NotBlank(b) => r.ok /\ r.val = b
            /\ ~NotBlank(b) =>
                  /\ \A i \in 1..Len(Candidates) :
                        (Exists(i) /\ \A j \in 1..(i - 1) : ~Exists(j)) =>
                            r.ok /\ r.val = <<"<resource_dir>/", Candidates[i]>>
                  /\ (\A i \in 1..Len(Candidates) : ~Exists(i)) => ~r.ok

C14_Witness ==
    /\ resolved # <<>>
    /\ resolved[1].binary = <<SP>>
    /\ resolved[1].resDir = << {Candidates[2], Candidates[3], "suwayomi-server.jar"} >>
    /\ resolved[1].res = [ok |-> TRUE, val |-> <<"<resource_dir>/", Candidates[2]>>]

-----------------------------------------------------------------------------
(* Properties of the storage reporter *)

IsPathPrefix(m, q) == Len(m) <= Len(q) /\ SubSeq(q, 1, Len(m)) = m

\* C15: the disk the report uses has a mount point that is a path prefix of
\* the query path, and every mount point that is a prefix of the query path
\* is a prefix of the chosen one (none is longer); the call is an error
\* exactly when no mount point is a prefix of the query path.
C15_LongestMountPrefix ==
    (storage # <<>> /\ storage.out # <<>>) =>
        LET disks == storage.in.disks
            r == storage.out[1]
            q == r.stat_path
            matching == {i \in 1..Len(disks) : IsPathPrefix(disks[i], q)}
        IN  /\ r.ok <=> matching # {}
            /\ r.ok =>
                  /\ r.disk[1] \in matching
                  /\ \A j \in matching : IsPathPrefix(disks[j], disks[r.disk[1]])

C15_Witness ==
    /\ storage # <<>>
    /\ storage.out # <<>>
    /\ storage.in.disks = << <<"/", "home">>, Root >>
    /\ storage.out[1].stat_path = <<"/", "home", "user", "data">>
    /\ storage.out[1].ok
    /\ storage.out[1].disk = <<1>>

====
